---- MODULE Spec2Model ----
(***************************************************************************)
(* Model of web3/utils/abi.py: resolution of an identifier plus call       *)
(* arguments against a contract ABI (get_abi_element and                   *)
(* get_abi_element_info) and validation of event log topics                *)
(* (get_event_log_topics); and of web3/_utils/filters.py: the data filters *)
(* of a LogFilter (match_fn, set_data_filters, is_valid_entry).            *)
(*                                                                         *)
(* The functions are pure; a state of the model is one call (operation and *)
(* inputs) together with its outcome.  An outcome records the value        *)
(* returned or the exception raised, and how often the codec was consulted *)
(* while computing it.                                                     *)
(***************************************************************************)
EXTENDS Integers, Sequences, FiniteSets, TLC

VARIABLES abi, call, result, threads, log_filter

vars == <<abi, call, result, threads, log_filter>>

(***************************************************************************)
(* Bounds of the model.                                                    *)
(***************************************************************************)
MaxAbiLen == 2
MaxArgs == 2
MaxTopics == 2

(***************************************************************************)
(* Python values that occur as call arguments: an int, or a list holding   *)
(* one int.                                                                *)
(***************************************************************************)
IntV(n) == [cls |-> "int", v |-> n]
ListV(n) == [cls |-> "list", v |-> n]
Values == {IntV(1), IntV(300), ListV(1)}

is_list_like(value) == value.cls = "list"

(***************************************************************************)
(* ABI elements.  An input is a name and a type; the type "tuple" stands   *)
(* for a tuple with the single component uint8.                            *)
(***************************************************************************)
P(n, t) == [name |-> n, type |-> t]
ParamNames == {"a", "b"}
InputLists ==
    { <<>>,
      <<P("a", "uint8")>>,
      <<P("a", "uint256")>>,
      <<P("a", "tuple")>>,
      <<P("a", "uint8"), P("b", "uint256")>> }

Elements ==
    [type : {"function"}, name : {"f"}, inputs : InputLists]
    \cup [type : {"event", "error"}, name : {"f"}, inputs : {<<P("a", "uint256")>>}]
    \cup [type : {"function"}, name : {""}, inputs : {<<>>}]
    \cup [type : {"constructor", "fallback", "receive"}, name : {"f"},
          inputs : {<<>>, <<P("a", "uint8")>>}]

RECURSIVE SeqsUpTo(_, _)
SeqsUpTo(S, n) ==
    IF n = 0 THEN {<<>>}
    ELSE LET shorter == SeqsUpTo(S, n - 1)
         IN  shorter \cup {Append(s, x) : s \in {t \in shorter : Len(t) = n - 1}, x \in S}

ABIs == SeqsUpTo(Elements, MaxAbiLen)

(***************************************************************************)
(* Function identifiers: the FallbackFn and ReceiveFn classes, None, a     *)
(* bytes value and text values.                                            *)
(***************************************************************************)
FallbackFn == [cls |-> "FallbackFn", val |-> ""]
ReceiveFn == [cls |-> "ReceiveFn", val |-> ""]
NoneId == [cls |-> "NoneType", val |-> ""]
Text(s) == [cls |-> "str", val |-> s]
Bytes(s) == [cls |-> "bytes", val |-> s]
Identifiers ==
    { FallbackFn, ReceiveFn, NoneId, Bytes("fallback"),
      Text(""), Text("fallback"), Text("receive"), Text("constructor"),
      Text("f"), Text("g") }

ArgLists == SeqsUpTo(Values, MaxArgs)
KwargMaps == UNION {[names -> Values] : names \in SUBSET ParamNames}
ArgPairs ==
    {ak \in ArgLists \X KwargMaps : Len(ak[1]) + Cardinality(DOMAIN ak[2]) <= MaxArgs}

(***************************************************************************)
(* Outcomes.                                                               *)
(***************************************************************************)
NoTrace == [normalize |-> 0, align |-> 0, is_encodable |-> 0]
AddTrace(s, t) ==
    [normalize |-> s.normalize + t.normalize,
     align |-> s.align + t.align,
     is_encodable |-> s.is_encodable + t.is_encodable]

Return(value, trace) ==
    [status |-> "return", value |-> value, trace |-> trace]
Raise(exc, message, trace) ==
    [status |-> "raise", exc |-> exc, message |-> message, trace |-> trace]

(***************************************************************************)
(* eth_utils helpers used by the module.                                   *)
(***************************************************************************)
is_text(identifier) == identifier.cls = "str"

filter_abi_by_name(abi_name, contract_abi) ==
    SelectSeq(contract_abi,
              LAMBDA e : e.type \in {"function", "event", "error"} /\ e.name = abi_name)

filter_abi_by_type(abi_type, contract_abi) ==
    SelectSeq(contract_abi, LAMBDA e : e.type = abi_type)

collapse_if_tuple(input) == IF input.type = "tuple" THEN "(uint8)" ELSE input.type

get_abi_input_types(element) ==
    [i \in 1..Len(element.inputs) |-> collapse_if_tuple(element.inputs[i])]

abi_to_signature(element) ==
    IF element.type \in {"fallback", "receive"}
    THEN [name |-> element.type, input_types |-> <<>>]
    ELSE IF element.type = "constructor"
    THEN [name |-> element.type, input_types |-> get_abi_input_types(element)]
    ELSE [name |-> element.name, input_types |-> get_abi_input_types(element)]

function_abi_to_4byte_selector(element) ==
    [keccak4 |-> abi_to_signature(element)]

encode_hex(selector) == [hex |-> selector]

InputNames(element) == {element.inputs[i].name : i \in 1..Len(element.inputs)}

\* [ok |-> FALSE] stands for the TypeError of eth_utils.
get_normalized_abi_inputs(element, args, kwargs) ==
    LET n == Len(element.inputs)
        positional == {element.inputs[i].name : i \in 1..(IF Len(args) < n THEN Len(args) ELSE n)}
    IN  IF Len(args) + Cardinality(DOMAIN kwargs) # n
        THEN [ok |-> FALSE, value |-> <<>>]
        ELSE IF DOMAIN kwargs = {}
        THEN [ok |-> TRUE, value |-> args]
        ELSE IF (DOMAIN kwargs) \cap positional # {}
        THEN [ok |-> FALSE, value |-> <<>>]
        ELSE IF (DOMAIN kwargs) \ InputNames(element) # {}
        THEN [ok |-> FALSE, value |-> <<>>]
        ELSE [ok |-> TRUE,
              value |-> [i \in 1..n |->
                            IF element.inputs[i].name \in DOMAIN kwargs
                            THEN kwargs[element.inputs[i].name]
                            ELSE args[i]]]

\* [ok |-> FALSE] stands for the TypeError raised for a tuple input whose
\* argument is not list-like.
get_aligned_abi_inputs(element, normalized_args) ==
    LET n == IF Len(normalized_args) < Len(element.inputs)
             THEN Len(normalized_args) ELSE Len(element.inputs)
    IN  IF \E i \in 1..n : element.inputs[i].type = "tuple" /\ ~is_list_like(normalized_args[i])
        THEN [ok |-> FALSE, types |-> <<>>, value |-> <<>>]
        ELSE [ok |-> TRUE,
              types |-> get_abi_input_types(element),
              value |-> [i \in 1..n |-> normalized_args[i]]]

(***************************************************************************)
(* The codec of eth_abi with the default registry.                         *)
(***************************************************************************)
is_encodable(type, value) ==
    IF type = "uint8" THEN value.cls = "int" /\ value.v >= 0 /\ value.v < 2 ^ 8
    ELSE IF type = "uint256" THEN value.cls = "int" /\ value.v >= 0
    ELSE IF type = "(uint8)" THEN value.cls = "list" /\ value.v >= 0 /\ value.v < 2 ^ 8
    ELSE FALSE

(***************************************************************************)
(* web3/utils/abi.py                                                       *)
(***************************************************************************)
\* _filter_by_argument_count that forgets to compare the argument count.
_filter_by_argument_count_any(num_arguments, contract_abi) ==
    SelectSeq(contract_abi,
              LAMBDA e : /\ e.type # "fallback"
                         /\ e.type # "receive")

_filter_by_argument_count(num_arguments, contract_abi) ==
    SelectSeq(contract_abi,
              LAMBDA e : /\ e.type # "fallback"
                         /\ e.type # "receive"
                         /\ Len(e.inputs) = num_arguments)

\* The number of is_encodable calls made by all(...) over the zipped pairs:
\* the generator stops at the first pair that is not encodable.
EncodableCalls(types, aligned_args) ==
    LET n == IF Len(types) < Len(aligned_args) THEN Len(types) ELSE Len(aligned_args)
        bad == {i \in 1..n : ~is_encodable(types[i], aligned_args[i])}
    IN  IF bad = {} THEN n ELSE CHOOSE i \in bad : \A j \in bad : i <= j

\* check_if_arguments_can_be_encoded with any(...) in place of all(...).
check_if_arguments_can_be_encoded_any(abi_element, args, kwargs) ==
    IF abi_element.type = "fallback" \/ abi_element.type = "receive"
    THEN [value |-> TRUE, trace |-> NoTrace]
    ELSE LET arguments == get_normalized_abi_inputs(abi_element, args, kwargs)
             aligned == get_aligned_abi_inputs(abi_element, arguments.value)
             t1 == [NoTrace EXCEPT !.normalize = 1]
             t2 == [t1 EXCEPT !.align = 1]
         IN  IF ~arguments.ok
             THEN [value |-> FALSE, trace |-> t1]
             ELSE IF Len(abi_element.inputs) # Len(arguments.value)
             THEN [value |-> FALSE, trace |-> t1]
             ELSE IF ~aligned.ok
             THEN [value |-> FALSE, trace |-> t2]
             ELSE [value |-> \E i \in 1..Len(aligned.types) :
                                 is_encodable(aligned.types[i], aligned.value[i]),
                   trace |-> [t2 EXCEPT !.is_encodable =
                                 EncodableCalls(aligned.types, aligned.value)]]

\* check_if_arguments_can_be_encoded with the length test of line 544 inverted.
check_if_arguments_can_be_encoded_inverted_count(abi_element, args, kwargs) ==
    IF abi_element.type = "fallback" \/ abi_element.type = "receive"
    THEN [value |-> TRUE, trace |-> NoTrace]
    ELSE LET arguments == get_normalized_abi_inputs(abi_element, args, kwargs)
             aligned == get_aligned_abi_inputs(abi_element, arguments.value)
             t1 == [NoTrace EXCEPT !.normalize = 1]
             t2 == [t1 EXCEPT !.align = 1]
         IN  IF ~arguments.ok
             THEN [value |-> FALSE, trace |-> t1]
             ELSE IF Len(abi_element.inputs) = Len(arguments.value)
             THEN [value |-> FALSE, trace |-> t1]
             ELSE IF ~aligned.ok
             THEN [value |-> FALSE, trace |-> t2]
             ELSE [value |-> \A i \in 1..Len(aligned.types) :
                                 is_encodable(aligned.types[i], aligned.value[i]),
                   trace |-> [t2 EXCEPT !.is_encodable =
                                 EncodableCalls(aligned.types, aligned.value)]]

check_if_arguments_can_be_encoded(abi_element, args, kwargs) ==
    IF abi_element.type = "fallback" \/ abi_element.type = "receive"
    THEN [value |-> TRUE, trace |-> NoTrace]
    ELSE LET arguments == get_normalized_abi_inputs(abi_element, args, kwargs)
             aligned == get_aligned_abi_inputs(abi_element, arguments.value)
             t1 == [NoTrace EXCEPT !.normalize = 1]
             t2 == [t1 EXCEPT !.align = 1]
         IN  IF ~arguments.ok
             THEN [value |-> FALSE, trace |-> t1]
             ELSE IF Len(abi_element.inputs) # Len(arguments.value)
             THEN [value |-> FALSE, trace |-> t1]
             ELSE IF ~aligned.ok
             THEN [value |-> FALSE, trace |-> t2]
             ELSE [value |-> \A i \in 1..Len(aligned.types) :
                                 is_encodable(aligned.types[i], aligned.value[i]),
                   trace |-> [t2 EXCEPT !.is_encodable =
                                 EncodableCalls(aligned.types, aligned.value)]]

RECURSIVE SumTrace(_, _, _)
SumTrace(contract_abi, args, kwargs) ==
    IF contract_abi = <<>> THEN NoTrace
    ELSE AddTrace(check_if_arguments_can_be_encoded(Head(contract_abi), args, kwargs).trace,
                  SumTrace(Tail(contract_abi), args, kwargs))

\* _filter_by_encodability that keeps every element.
_filter_by_encodability_all(contract_abi, args, kwargs) ==
    [value |-> contract_abi,
     trace |-> SumTrace(contract_abi, args, kwargs)]

_filter_by_encodability(contract_abi, args, kwargs) ==
    [value |-> SelectSeq(contract_abi,
                         LAMBDA e : check_if_arguments_can_be_encoded(e, args, kwargs).value),
     trace |-> SumTrace(contract_abi, args, kwargs)]

\* _mismatched_abi_error_diagnosis testing the encodable count first.
_mismatched_abi_error_diagnosis_swapped(function_identifier, matching_function_signatures, arg_count_matches, encoding_matches) ==
    [identifier |-> function_identifier,
     found |-> Len(matching_function_signatures),
     signatures |-> matching_function_signatures,
     diagnosis |->
        IF encoding_matches = 0 THEN "no matching argument types"
        ELSE IF arg_count_matches = 0 THEN "improper number of arguments"
        ELSE IF encoding_matches > 1 THEN "ambiguous argument encoding"
        ELSE ""]

_mismatched_abi_error_diagnosis(function_identifier, matching_function_signatures, arg_count_matches, encoding_matches) ==
    [identifier |-> function_identifier,
     found |-> Len(matching_function_signatures),
     signatures |-> matching_function_signatures,
     diagnosis |->
        IF arg_count_matches = 0 THEN "improper number of arguments"
        ELSE IF encoding_matches = 0 THEN "no matching argument types"
        ELSE IF encoding_matches > 1 THEN "ambiguous argument encoding"
        ELSE ""]

_element_abi_to_type(element_abi, trace) ==
    IF element_abi.type \in {"function", "constructor", "fallback", "receive", "event", "error"}
    THEN Return(element_abi, trace)
    ELSE Raise("Web3ValueError", "Invalid abi type", trace)

\* get_constructor_function_abi that takes the last constructor.
get_constructor_function_abi_last(contract_abi) ==
    LET constructor_abis == filter_abi_by_type("constructor", contract_abi)
    IN  IF constructor_abis # <<>> /\ constructor_abis[1].type = "constructor"
        THEN Return(constructor_abis[Len(constructor_abis)], NoTrace)
        ELSE Raise("ABIConstructorNotFound",
                   "No constructor function was found in the contract ABI.", NoTrace)

get_constructor_function_abi(contract_abi) ==
    LET constructor_abis == filter_abi_by_type("constructor", contract_abi)
    IN  IF constructor_abis # <<>> /\ constructor_abis[1].type = "constructor"
        THEN Return(constructor_abis[1], NoTrace)
        ELSE Raise("ABIConstructorNotFound",
                   "No constructor function was found in the contract ABI.", NoTrace)

get_receive_function_abi(contract_abi) ==
    LET receive_abis == filter_abi_by_type("receive", contract_abi)
    IN  IF receive_abis # <<>> /\ receive_abis[1].type = "receive"
        THEN Return(receive_abis[1], NoTrace)
        ELSE Raise("ABIReceiveNotFound",
                   "No receive function was found in the contract ABI.", NoTrace)

\* get_fallback_function_abi that filters by the wrong type.
get_fallback_function_abi_receive(contract_abi) ==
    LET fallback_abis == filter_abi_by_type("receive", contract_abi)
    IN  IF fallback_abis # <<>> /\ fallback_abis[1].type = "fallback"
        THEN Return(fallback_abis[1], NoTrace)
        ELSE Raise("ABIFallbackNotFound",
                   "No fallback function was found in the contract ABI.", NoTrace)

get_fallback_function_abi(contract_abi) ==
    LET fallback_abis == filter_abi_by_type("fallback", contract_abi)
    IN  IF fallback_abis # <<>> /\ fallback_abis[1].type = "fallback"
        THEN Return(fallback_abis[1], NoTrace)
        ELSE Raise("ABIFallbackNotFound",
                   "No fallback function was found in the contract ABI.", NoTrace)

\* Lines 363-365 of get_abi_element: the elements matched by name and by
\* argument count.
abi_element_matches_without_name_filter(contract_abi, function_identifier, args, kwargs) ==
    LET filtered_abis_by_name == filter_abi_by_name(function_identifier.val, contract_abi)
        arg_count == Len(args) + Cardinality(DOMAIN kwargs)
    IN  [by_name |-> filtered_abis_by_name,
         by_count |-> _filter_by_argument_count(arg_count, contract_abi)]

\* Lines 363-365 with the list filtered by count kept under the name of the
\* list filtered by name.
abi_element_matches_overwriting_names(contract_abi, function_identifier, args, kwargs) ==
    LET filtered_abis_by_name == filter_abi_by_name(function_identifier.val, contract_abi)
        arg_count == Len(args) + Cardinality(DOMAIN kwargs)
    IN  [by_name |-> _filter_by_argument_count(arg_count, filtered_abis_by_name),
         by_count |-> _filter_by_argument_count(arg_count, filtered_abis_by_name)]

abi_element_matches(contract_abi, function_identifier, args, kwargs) ==
    LET filtered_abis_by_name == filter_abi_by_name(function_identifier.val, contract_abi)
        arg_count == Len(args) + Cardinality(DOMAIN kwargs)
    IN  [by_name |-> filtered_abis_by_name,
         by_count |-> _filter_by_argument_count(arg_count, filtered_abis_by_name)]

\* Lines 367-390 of get_abi_element: the choice among the matched elements.
get_abi_element_by_name_without_fast_path(contract_abi, function_identifier, args, kwargs) ==
    LET matches == abi_element_matches(contract_abi, function_identifier, args, kwargs)
        elements_with_encodable_args ==
            _filter_by_encodability(matches.by_count, args, kwargs)
        matching_function_signatures ==
            [i \in 1..Len(matches.by_name) |-> abi_to_signature(matches.by_name[i])]
    IN  IF Len(elements_with_encodable_args.value) # 1
        THEN Raise("MismatchedABI",
                   _mismatched_abi_error_diagnosis(function_identifier,
                                                   matching_function_signatures,
                                                   Len(matches.by_count),
                                                   Len(elements_with_encodable_args.value)),
                   elements_with_encodable_args.trace)
        ELSE _element_abi_to_type(elements_with_encodable_args.value[1],
                                  elements_with_encodable_args.trace)

get_abi_element_by_name(contract_abi, function_identifier, args, kwargs) ==
    LET matches == abi_element_matches(contract_abi, function_identifier, args, kwargs)
        elements_with_encodable_args ==
            _filter_by_encodability(matches.by_count, args, kwargs)
        matching_function_signatures ==
            [i \in 1..Len(matches.by_name) |-> abi_to_signature(matches.by_name[i])]
    IN  IF args = <<>> /\ DOMAIN kwargs = {} /\ Len(matches.by_count) = 1
        THEN _element_abi_to_type(matches.by_count[1], NoTrace)
        ELSE IF Len(elements_with_encodable_args.value) # 1
        THEN Raise("MismatchedABI",
                   _mismatched_abi_error_diagnosis(function_identifier,
                                                   matching_function_signatures,
                                                   Len(matches.by_count),
                                                   Len(elements_with_encodable_args.value)),
                   elements_with_encodable_args.trace)
        ELSE _element_abi_to_type(elements_with_encodable_args.value[1],
                                  elements_with_encodable_args.trace)

\* get_abi_element accepting every identifier that is not None.
get_abi_element_without_text_check(contract_abi, function_identifier, args, kwargs) ==
    IF function_identifier = FallbackFn \/ function_identifier = Text("fallback")
    THEN get_fallback_function_abi(contract_abi)
    ELSE IF function_identifier = ReceiveFn \/ function_identifier = Text("receive")
    THEN get_receive_function_abi(contract_abi)
    ELSE IF function_identifier = NoneId
    THEN Raise("Web3TypeError", "Unsupported function identifier", NoTrace)
    ELSE IF function_identifier = Text("constructor")
    THEN get_constructor_function_abi(contract_abi)
    ELSE get_abi_element_by_name(contract_abi, function_identifier, args, kwargs)

get_abi_element(contract_abi, function_identifier, args, kwargs) ==
    IF function_identifier = FallbackFn \/ function_identifier = Text("fallback")
    THEN get_fallback_function_abi(contract_abi)
    ELSE IF function_identifier = ReceiveFn \/ function_identifier = Text("receive")
    THEN get_receive_function_abi(contract_abi)
    ELSE IF function_identifier = NoneId \/ ~is_text(function_identifier)
    THEN Raise("Web3TypeError", "Unsupported function identifier", NoTrace)
    ELSE IF function_identifier = Text("constructor")
    THEN get_constructor_function_abi(contract_abi)
    ELSE get_abi_element_by_name(contract_abi, function_identifier, args, kwargs)

\* The value returned is the ABIElementInfo; a TypeError of the
\* normalization or alignment done here propagates to the caller.
get_abi_element_info(contract_abi, function_identifier, args, kwargs) ==
    LET fn_abi == get_abi_element(contract_abi, function_identifier, args, kwargs)
    IN  IF fn_abi.status = "raise" THEN fn_abi
        ELSE LET fn_selector == encode_hex(function_abi_to_4byte_selector(fn_abi.value))
                 fn_inputs == get_normalized_abi_inputs(fn_abi.value, args, kwargs)
                 aligned_fn_inputs == get_aligned_abi_inputs(fn_abi.value, fn_inputs.value)
                 t1 == AddTrace(fn_abi.trace, [NoTrace EXCEPT !.normalize = 1])
                 t2 == AddTrace(t1, [NoTrace EXCEPT !.align = 1])
             IN  IF fn_abi.value.type = "fallback" \/ fn_abi.value.type = "receive"
                 THEN Return([abi |-> fn_abi.value, selector |-> fn_selector,
                              arguments |-> <<>>], fn_abi.trace)
                 ELSE IF ~fn_inputs.ok
                 THEN Raise("TypeError", "normalization", t1)
                 ELSE IF ~aligned_fn_inputs.ok
                 THEN Raise("TypeError", "alignment", t2)
                 ELSE Return([abi |-> fn_abi.value, selector |-> fn_selector,
                              arguments |-> aligned_fn_inputs.value], t2)

(***************************************************************************)
(* The resolver: a behaviour is one lookup in one interface description.   *)
(***************************************************************************)
Init ==
    /\ abi \in ABIs
    /\ call = [op |-> "none"]
    /\ result = [status |-> "none"]
    /\ threads = <<>>
    /\ log_filter = [constructed |-> FALSE]

GetAbiElement ==
    /\ call.op = "none"
    /\ \E identifier \in Identifiers, ak \in ArgPairs :
           /\ call' = [op |-> "get_abi_element", identifier |-> identifier,
                       args |-> ak[1], kwargs |-> ak[2]]
           /\ result' = get_abi_element(abi, identifier, ak[1], ak[2])
           /\ UNCHANGED <<abi, threads, log_filter>>

GetAbiElementInfo ==
    /\ call.op = "none"
    /\ \E identifier \in Identifiers, ak \in ArgPairs :
           /\ call' = [op |-> "get_abi_element_info", identifier |-> identifier,
                       args |-> ak[1], kwargs |-> ak[2]]
           /\ result' = get_abi_element_info(abi, identifier, ak[1], ak[2])
           /\ UNCHANGED <<abi, threads, log_filter>>

Next == GetAbiElement \/ GetAbiElementInfo

Spec == Init /\ [][Next]_vars

(***************************************************************************)
(* Event log topics.  A topic arrives as bytes or as a hex string; bytes   *)
(* are sequences of 0..255 and a string is its characters' code points     *)
(* after an optional "0x".                                                 *)
(***************************************************************************)
BytesTopic(b) == [cls |-> "bytes", prefix |-> FALSE, data |-> b]
StrTopic(prefix, chars) == [cls |-> "str", prefix |-> prefix, data |-> chars]

\* "0", "A" and "a"
HexChars == {48, 65, 97}
HexStrings == {<<>>} \cup {<<c>> : c \in HexChars} \cup {<<c, d>> : c \in HexChars, d \in HexChars}
TopicValues ==
    {BytesTopic(b) : b \in {<<>>, <<0>>, <<10>>, <<170>>}}
    \cup {StrTopic(p, h) : p \in BOOLEAN, h \in HexStrings}

NoTopics == [given |-> FALSE, value |-> <<>>]
TopicInputs ==
    {NoTopics} \cup {[given |-> TRUE, value |-> t] : t \in SeqsUpTo(TopicValues, MaxTopics)}

Events == [type : {"event"}, name : {"E", "F"}, inputs : {<<>>}, anonymous : BOOLEAN]

\* keccak of the event signature, with a digest of one byte.
event_abi_to_log_topic(event_abi) ==
    IF abi_to_signature(event_abi).name = "E" THEN <<10>> ELSE <<170>>

is_hex_char(c) == (c >= 48 /\ c <= 57) \/ (c >= 65 /\ c <= 70) \/ (c >= 97 /\ c <= 102)

unhex(c) == IF c <= 57 THEN c - 48 ELSE IF c <= 70 THEN c - 55 ELSE c - 87

decode_hex(chars) ==
    [i \in 1..(Len(chars) \div 2) |-> unhex(chars[2 * i - 1]) * 16 + unhex(chars[2 * i])]

\* to_bytes of eth_utils for bytes and for hexstr=...; a hex string of odd
\* length gets a leading "0".
to_bytes(cls, data) ==
    IF cls = "bytes" THEN data
    ELSE IF Len(data) % 2 = 1 THEN decode_hex(<<48>> \o data)
    ELSE decode_hex(data)

hexstr_if_str(value) ==
    IF value.cls = "str"
    THEN IF value.data # <<>> /\ \E i \in 1..Len(value.data) : ~is_hex_char(value.data[i])
         THEN [ok |-> FALSE, value |-> <<>>]
         ELSE [ok |-> TRUE, value |-> to_bytes("str", value.data)]
    ELSE [ok |-> TRUE, value |-> to_bytes("bytes", value.data)]

\* log_topic_to_bytes that takes a string as text, not as hex digits.
log_topic_to_bytes_as_text(log_topic) ==
    [ok |-> TRUE,
     value |-> IF log_topic.cls = "str" /\ log_topic.prefix
               THEN <<48, 120>> \o log_topic.data
               ELSE log_topic.data]

log_topic_to_bytes(log_topic) == hexstr_if_str(log_topic)

\* get_event_log_topics that returns topics[0:] on a match.
get_event_log_topics_unstripped(event_abi, topics_arg) ==
    LET topics == IF ~topics_arg.given THEN <<>> ELSE topics_arg.value
    IN  IF event_abi.anonymous
        THEN Return(topics, [compared |-> FALSE])
        ELSE IF Len(topics) = 0
        THEN Raise("MismatchedABI", "Expected non-anonymous event to have 1 or more topics",
                   [compared |-> FALSE])
        ELSE IF ~log_topic_to_bytes(topics[1]).ok
        THEN Raise("ValueError", "when sending a str, it must be a hex string",
                   [compared |-> FALSE])
        ELSE IF event_abi_to_log_topic(event_abi) # log_topic_to_bytes(topics[1]).value
        THEN Raise("MismatchedABI", "The event signature did not match the provided ABI",
                   [compared |-> TRUE])
        ELSE Return(topics, [compared |-> TRUE])

\* get_event_log_topics that tests for empty topics before it tests anonymous.
get_event_log_topics_empty_first(event_abi, topics_arg) ==
    LET topics == IF ~topics_arg.given THEN <<>> ELSE topics_arg.value
    IN  IF Len(topics) = 0
        THEN Raise("MismatchedABI", "Expected non-anonymous event to have 1 or more topics",
                   [compared |-> FALSE])
        ELSE IF event_abi.anonymous
        THEN Return(topics, [compared |-> FALSE])
        ELSE IF ~log_topic_to_bytes(topics[1]).ok
        THEN Raise("ValueError", "when sending a str, it must be a hex string",
                   [compared |-> FALSE])
        ELSE IF event_abi_to_log_topic(event_abi) # log_topic_to_bytes(topics[1]).value
        THEN Raise("MismatchedABI", "The event signature did not match the provided ABI",
                   [compared |-> TRUE])
        ELSE Return(SubSeq(topics, 2, Len(topics)), [compared |-> TRUE])

get_event_log_topics(event_abi, topics_arg) ==
    LET topics == IF ~topics_arg.given THEN <<>> ELSE topics_arg.value
    IN  IF event_abi.anonymous
        THEN Return(topics, [compared |-> FALSE])
        ELSE IF Len(topics) = 0
        THEN Raise("MismatchedABI", "Expected non-anonymous event to have 1 or more topics",
                   [compared |-> FALSE])
        ELSE IF ~log_topic_to_bytes(topics[1]).ok
        THEN Raise("ValueError", "when sending a str, it must be a hex string",
                   [compared |-> FALSE])
        ELSE IF event_abi_to_log_topic(event_abi) # log_topic_to_bytes(topics[1]).value
        THEN Raise("MismatchedABI", "The event signature did not match the provided ABI",
                   [compared |-> TRUE])
        ELSE Return(SubSeq(topics, 2, Len(topics)), [compared |-> TRUE])

(***************************************************************************)
(* The topic validator: a behaviour is one call.                           *)
(***************************************************************************)
InitTopics ==
    /\ abi = <<>>
    /\ call = [op |-> "none"]
    /\ result = [status |-> "none"]
    /\ threads = <<>>
    /\ log_filter = [constructed |-> FALSE]

GetEventLogTopics ==
    /\ call.op = "none"
    /\ \E event_abi \in Events, topics \in TopicInputs :
           /\ call' = [op |-> "get_event_log_topics", event_abi |-> event_abi, topics |-> topics]
           /\ result' = get_event_log_topics(event_abi, topics)
           /\ UNCHANGED <<abi, threads, log_filter>>

NextTopics == GetEventLogTopics

SpecTopics == InitTopics /\ [][NextTopics]_vars

(***************************************************************************)
(* Properties of the resolver, stated over the call and its outcome.       *)
(***************************************************************************)
IsLookup == call.op = "get_abi_element"
IsInfo == call.op = "get_abi_element_info"
NumArgs == Len(call.args) + Cardinality(DOMAIN call.kwargs)

\* A text that is none of the reserved names.
OrdinaryName(identifier) ==
    identifier.cls = "str" /\ identifier.val \notin {"fallback", "receive", "constructor"}

EncodableUnder(element, args, kwargs) ==
    LET arguments == get_normalized_abi_inputs(element, args, kwargs)
        aligned == get_aligned_abi_inputs(element, arguments.value)
    IN  /\ arguments.ok
        /\ aligned.ok
        /\ \A i \in 1..Len(element.inputs) :
               is_encodable(collapse_if_tuple(element.inputs[i]), aligned.value[i])

NameMatched ==
    {i \in 1..Len(abi) : /\ abi[i].type \in {"function", "event", "error"}
                         /\ abi[i].name = call.identifier.val}
ArityMatched == {i \in NameMatched : Len(abi[i].inputs) = NumArgs}
EncodableMatched == {i \in ArityMatched : EncodableUnder(abi[i], call.args, call.kwargs)}
The(S) == CHOOSE i \in S : TRUE

Returns(element) == result.status = "return" /\ result.value = element
Raises(exc) == result.status = "raise" /\ result.exc = exc
Mismatched(diagnosis) == Raises("MismatchedABI") /\ result.message.diagnosis = diagnosis

\* C1: for an ordinary text identifier and at least one argument,
\* get_abi_element returns an element exactly when it is the only one that
\* matches by name, by argument count and by encodability; with no such
\* element or several it raises MismatchedABI.
C1_UniqueEncodableMatch ==
    (IsLookup /\ OrdinaryName(call.identifier) /\ NumArgs >= 1) =>
        IF Cardinality(EncodableMatched) = 1
        THEN Returns(abi[The(EncodableMatched)])
        ELSE Raises("MismatchedABI")

C1_Witness ==
    /\ IsLookup /\ OrdinaryName(call.identifier) /\ NumArgs >= 1
    /\ Cardinality(ArityMatched) = 2
    /\ Cardinality(EncodableMatched) = 1
    /\ result.status = "return"

\* C2: a MismatchedABI of get_abi_element carries exactly one of three
\* diagnoses: improper number of arguments when nothing matches by count,
\* else no matching argument types when nothing is encodable, else ambiguous
\* encoding, and then more than one element is encodable; never an empty one.
C2_ThreeWayDiagnosis ==
    (IsLookup /\ Raises("MismatchedABI")) =>
        /\ result.message.diagnosis =
              IF ArityMatched = {} THEN "improper number of arguments"
              ELSE IF EncodableMatched = {} THEN "no matching argument types"
              ELSE "ambiguous argument encoding"
        /\ (ArityMatched # {} /\ EncodableMatched # {}) => Cardinality(EncodableMatched) > 1
        /\ result.message.diagnosis # ""

C2_Witness ==
    /\ IsLookup
    /\ Mismatched("ambiguous argument encoding")
    /\ Cardinality(EncodableMatched) = 2

TwoArities == \E i, j \in NameMatched : Len(abi[i].inputs) # Len(abi[j].inputs)

\* C3 as stated: with two overloads of different arities, an argument count
\* equal to the arity of exactly one of them resolves to that overload, and a
\* count equal to no arity raises MismatchedABI for an improper number of
\* arguments.
C3_CountAloneResolves ==
    (IsLookup /\ OrdinaryName(call.identifier) /\ TwoArities) =>
        /\ Cardinality(ArityMatched) = 1 => Returns(abi[The(ArityMatched)])
        /\ ArityMatched = {} => Mismatched("improper number of arguments")

\* C3: with two overloads of different arities, an argument count equal to the
\* arity of exactly one of them resolves to that overload when the arguments
\* are encodable under it and raises MismatchedABI for no matching argument
\* types when they are not; a count equal to no arity raises MismatchedABI for
\* an improper number of arguments.
C3_CountAndEncodabilityResolve ==
    (IsLookup /\ OrdinaryName(call.identifier) /\ TwoArities) =>
        /\ Cardinality(ArityMatched) = 1 =>
              IF EncodableUnder(abi[The(ArityMatched)], call.args, call.kwargs)
              THEN Returns(abi[The(ArityMatched)])
              ELSE Mismatched("no matching argument types")
        /\ ArityMatched = {} => Mismatched("improper number of arguments")

C3_Witness ==
    /\ IsLookup /\ OrdinaryName(call.identifier) /\ TwoArities
    /\ NumArgs >= 1
    /\ Cardinality(ArityMatched) = 1
    /\ result.status = "return"

RequestedType ==
    IF call.identifier = FallbackFn \/ call.identifier = Text("fallback") THEN "fallback"
    ELSE IF call.identifier = ReceiveFn \/ call.identifier = Text("receive") THEN "receive"
    ELSE IF call.identifier = Text("constructor") THEN "constructor"
    ELSE "none"
OfType(type) == {i \in 1..Len(abi) : abi[i].type = type}
First(S) == CHOOSE i \in S : \A j \in S : i <= j
NotFound(type) ==
    IF type = "fallback" THEN "ABIFallbackNotFound"
    ELSE IF type = "receive" THEN "ABIReceiveNotFound"
    ELSE "ABIConstructorNotFound"

C5_NotFoundUnlessExactlyOne ==
    (IsLookup /\ RequestedType # "none" /\ Cardinality(OfType(RequestedType)) # 1) =>
        Raises(NotFound(RequestedType))

\* C5: asking for the constructor, fallback or receive element raises NotFound
\* when the ABI has no element of that type; with two or more the first one in
\* the ABI is returned.
C5_NotFoundOnlyWhenNone ==
    (IsLookup /\ RequestedType # "none" /\ Cardinality(OfType(RequestedType)) # 1) =>
        IF OfType(RequestedType) = {}
        THEN Raises(NotFound(RequestedType))
        ELSE Returns(abi[First(OfType(RequestedType))])

C5_Witness ==
    /\ IsLookup /\ RequestedType = "constructor"
    /\ Cardinality(OfType("constructor")) >= 2
    /\ abi[1] # abi[Len(abi)]
    /\ result.status = "return"

\* C6 as stated: every identifier that is neither a sentinel nor a non-empty
\* text makes get_abi_element raise the unsupported-identifier error.
C6_EmptyTextRejected ==
    (/\ IsLookup
     /\ call.identifier \notin {FallbackFn, ReceiveFn}
     /\ ~(call.identifier.cls = "str" /\ call.identifier.val # "")) =>
        Raises("Web3TypeError")

\* C6: an identifier that is None or not a text (and not a sentinel) makes
\* get_abi_element raise the unsupported-identifier error before any
\* filtering; the empty text is looked up like any other name, so the call
\* returns an element whose name is empty or raises MismatchedABI.
C6_NonTextRejected ==
    IsLookup =>
        /\ (/\ call.identifier \notin {FallbackFn, ReceiveFn}
            /\ call.identifier.cls # "str") =>
               Raises("Web3TypeError") /\ result.trace = NoTrace
        /\ call.identifier = Text("") =>
               \/ /\ result.status = "return"
                  /\ result.value.name = ""
                  /\ result.value \in {abi[i] : i \in ArityMatched}
               \/ /\ Raises("MismatchedABI")
                  /\ result.message.found = Cardinality(NameMatched)

C6_Witness ==
    /\ IsLookup
    /\ call.identifier = Bytes("fallback")
    /\ OfType("fallback") # {}
    /\ NumArgs >= 1
    /\ Raises("Web3TypeError")

\* C7: with no arguments and exactly one element matching the name with no
\* inputs, get_abi_element returns it without normalization, alignment or
\* is_encodable; the codec is consulted only off this fast path.
C7_FastPathSkipsCodec ==
    /\ (/\ IsLookup /\ OrdinaryName(call.identifier)
        /\ NumArgs = 0 /\ Cardinality(ArityMatched) = 1) =>
           Returns(abi[The(ArityMatched)]) /\ result.trace = NoTrace
    /\ (IsLookup /\ result.trace # NoTrace) =>
           /\ OrdinaryName(call.identifier)
           /\ ~(NumArgs = 0 /\ Cardinality(ArityMatched) = 1)

C7_Witness ==
    /\ IsLookup /\ OrdinaryName(call.identifier)
    /\ NumArgs = 0
    /\ Cardinality(ArityMatched) = 1
    /\ Cardinality(NameMatched) = 2
    /\ result.status = "return"

\* C8: for every identifier other than the markers and the names fallback,
\* receive and constructor, an element returned by get_abi_element is never a
\* constructor, fallback or receive element.
C8_SpecialElementsNotReturned ==
    (IsLookup /\ RequestedType = "none" /\ result.status = "return") =>
        result.value.type \notin {"constructor", "fallback", "receive"}

C8_Witness ==
    /\ IsLookup /\ OrdinaryName(call.identifier)
    /\ NumArgs >= 1
    /\ \E i \in 1..Len(abi) :
           /\ abi[i].type \in {"constructor", "fallback", "receive"}
           /\ abi[i].name = call.identifier.val
           /\ EncodableUnder(abi[i], call.args, call.kwargs)
    /\ result.status = "return"

(***************************************************************************)
(* Properties of the topic validator.                                      *)
(***************************************************************************)
IsTopics == call.op = "get_event_log_topics"
GivenTopics == IF call.topics.given THEN call.topics.value ELSE <<>>

\* C9: for an event that is not anonymous, get_event_log_topics returns the
\* topics after the first, in order, when the first topic is the signature
\* hash, and raises MismatchedABI when it is another value or when there are
\* no topics; what it returns is one topic shorter than what it was given.
C9_SignatureTopicStripped ==
    (IsTopics /\ ~call.event_abi.anonymous) =>
        IF GivenTopics = <<>>
        THEN Raises("MismatchedABI")
        ELSE IF log_topic_to_bytes(GivenTopics[1]).value = event_abi_to_log_topic(call.event_abi)
        THEN /\ result.status = "return"
             /\ Len(result.value) = Len(GivenTopics) - 1
             /\ \A i \in 1..Len(result.value) : result.value[i] = GivenTopics[i + 1]
        ELSE Raises("MismatchedABI")

C9_Witness ==
    /\ IsTopics /\ ~call.event_abi.anonymous
    /\ Len(GivenTopics) = 2
    /\ GivenTopics[1].cls = "str"
    /\ GivenTopics[2] # GivenTopics[1]
    /\ result.status = "return"

\* C10: for an anonymous event get_event_log_topics returns the topics it was
\* given, unchanged, or the empty sequence when none were given; it never
\* compares with the signature hash and never raises.
C10_AnonymousUnchanged ==
    (IsTopics /\ call.event_abi.anonymous) =>
        /\ result.status = "return"
        /\ result.value = GivenTopics
        /\ ~result.trace.compared
        /\ ~call.topics.given => result.value = <<>>

C10_Witness ==
    /\ IsTopics /\ call.event_abi.anonymous
    /\ Len(GivenTopics) = 2
    /\ log_topic_to_bytes(GivenTopics[1]).value # event_abi_to_log_topic(call.event_abi)
    /\ result.status = "return"

(***************************************************************************)
(* The encodability probe called on its own: a behaviour is one call of    *)
(* check_if_arguments_can_be_encoded.                                      *)
(***************************************************************************)
InitProbe ==
    /\ abi = <<>>
    /\ call = [op |-> "none"]
    /\ result = [status |-> "none"]
    /\ threads = <<>>
    /\ log_filter = [constructed |-> FALSE]

CheckIfArgumentsCanBeEncoded ==
    /\ call.op = "none"
    /\ \E abi_element \in Elements, ak \in ArgPairs :
           /\ call' = [op |-> "check_if_arguments_can_be_encoded",
                       abi_element |-> abi_element, args |-> ak[1], kwargs |-> ak[2]]
           /\ result' = LET probe == check_if_arguments_can_be_encoded(abi_element, ak[1], ak[2])
                        IN  Return(probe.value, probe.trace)
           /\ UNCHANGED <<abi, threads, log_filter>>

NextProbe == CheckIfArgumentsCanBeEncoded

SpecProbe == InitProbe /\ [][NextProbe]_vars

IsProbe == call.op = "check_if_arguments_can_be_encoded"

\* The named arguments fill exactly the inputs that the positional ones leave.
FillsInputs(element, args, kwargs) ==
    /\ Len(args) <= Len(element.inputs)
    /\ Cardinality(DOMAIN kwargs) = Len(element.inputs) - Len(args)
    /\ DOMAIN kwargs = {element.inputs[i].name : i \in (Len(args) + 1)..Len(element.inputs)}

FilledInput(element, args, kwargs, i) ==
    IF i <= Len(args) THEN args[i] ELSE kwargs[element.inputs[i].name]

\* C11: check_if_arguments_can_be_encoded returns true for a fallback or
\* receive element whatever the arguments; for another element it returns,
\* without raising, false when the arguments do not fill the inputs
\* (duplicate, missing or surplus), when a tuple input gets an argument that
\* is not list-like or when some argument is not encodable at its type, and
\* true when all of this succeeds.
C11_ProbeNeverRaises ==
    IsProbe =>
        /\ result.status = "return"
        /\ result.value =
              IF call.abi_element.type \in {"fallback", "receive"} THEN TRUE
              ELSE /\ FillsInputs(call.abi_element, call.args, call.kwargs)
                   /\ \A i \in 1..Len(call.abi_element.inputs) :
                          LET input == call.abi_element.inputs[i]
                              value == FilledInput(call.abi_element, call.args, call.kwargs, i)
                          IN  /\ input.type = "tuple" => is_list_like(value)
                              /\ is_encodable(collapse_if_tuple(input), value)

C11_Witness ==
    /\ IsProbe
    /\ call.abi_element.type = "function"
    /\ Len(call.args) = 1
    /\ Cardinality(DOMAIN call.kwargs) = 1
    /\ result.status = "return"
    /\ result.value = TRUE

(***************************************************************************)
(* Further properties of the resolver.                                     *)
(***************************************************************************)
Callable(element) == element.type \in {"function", "event", "error"}

\* An ABI a compiler can emit: at most one constructor, fallback and receive.
WellFormed ==
    \A type \in {"constructor", "fallback", "receive"} : Cardinality(OfType(type)) <= 1

NoSibling(i) ==
    \A j \in 1..Len(abi) :
        (/\ j # i
         /\ Callable(abi[j])
         /\ abi[j].name = abi[i].name) => Len(abi[j].inputs) # Len(abi[i].inputs)

\* The identifier under which an element is asked for: its name, or its type
\* for the elements that have no name of their own.
NameOf(element) == IF Callable(element) THEN Text(element.name) ELSE Text(element.type)

\* C12: in a well-formed ABI, for every element that has no other element of
\* the same name and the same number of inputs, get_abi_element called with
\* the element's name and positional arguments that are encodable at its
\* input types returns that element.
C12_RoundTrip ==
    (IsLookup /\ DOMAIN call.kwargs = {} /\ WellFormed) =>
        \A i \in 1..Len(abi) :
            (/\ call.identifier = NameOf(abi[i])
             /\ Callable(abi[i]) => NoSibling(i)
             /\ EncodableUnder(abi[i], call.args, call.kwargs)) => Returns(abi[i])

C12_Witness ==
    /\ IsLookup /\ DOMAIN call.kwargs = {} /\ WellFormed
    /\ Len(call.args) >= 1
    /\ Cardinality(NameMatched) = 2
    /\ \E i \in NameMatched :
           /\ call.identifier = NameOf(abi[i])
           /\ NoSibling(i)
           /\ EncodableUnder(abi[i], call.args, call.kwargs)
    /\ result.status = "return"

\* The k-th smallest element of a set of indices.
Kth(S, k) == CHOOSE i \in S : Cardinality({j \in S : j <= i}) = k

\* C14: the message of a MismatchedABI of get_abi_element counts and lists the
\* signatures of all elements matched by name, in the order of the ABI,
\* whatever their number of inputs and whether or not they are encodable.
C14_DiagnosisListsNameMatches ==
    (IsLookup /\ Raises("MismatchedABI")) =>
        /\ result.message.found = Cardinality(NameMatched)
        /\ Len(result.message.signatures) = Cardinality(NameMatched)
        /\ \A k \in 1..Cardinality(NameMatched) :
               result.message.signatures[k] = abi_to_signature(abi[Kth(NameMatched, k)])

C14_Witness ==
    /\ IsLookup /\ Raises("MismatchedABI")
    /\ Cardinality(NameMatched) = 2
    /\ Cardinality(ArityMatched) = 1
    /\ EncodableMatched = {}
    /\ abi[1] # abi[2]

(***************************************************************************)
(* Further properties of the topic validator.                              *)
(***************************************************************************)
hex_digit(n) == IF n < 10 THEN 48 + n ELSE 87 + n
lower(c) == IF c >= 65 /\ c <= 70 THEN c + 32 ELSE c

\* The lower-case hex digits of a byte string, two for each byte.
HexDigits(bytes) ==
    [k \in 1..(2 * Len(bytes)) |->
        IF k % 2 = 1 THEN hex_digit(bytes[(k + 1) \div 2] \div 16)
        ELSE hex_digit(bytes[k \div 2] % 16)]

\* A string topic writes a bytes topic: its digits, in either case and after
\* a leading zero when their number is odd, are the hex digits of the bytes.
Writes(str_topic, bytes_topic) ==
    /\ str_topic.cls = "str"
    /\ bytes_topic.cls = "bytes"
    /\ LET digits == IF Len(str_topic.data) % 2 = 1
                     THEN <<48>> \o str_topic.data ELSE str_topic.data
       IN  [k \in 1..Len(digits) |-> lower(digits[k])] = HexDigits(bytes_topic.data)

\* C15: for an event that is not anonymous, a first topic given as bytes and
\* the same topic written as a hex string become the same bytes, and
\* get_event_log_topics has the same outcome for both.
C15_TopicRepresentation ==
    (/\ IsTopics /\ ~call.event_abi.anonymous
     /\ GivenTopics # <<>>
     /\ GivenTopics[1].cls = "bytes") =>
        \A str_topic \in TopicValues :
            Writes(str_topic, GivenTopics[1]) =>
               /\ log_topic_to_bytes(str_topic).value = log_topic_to_bytes(GivenTopics[1]).value
               /\ LET other == get_event_log_topics(
                                   call.event_abi,
                                   [given |-> TRUE,
                                    value |-> <<str_topic>> \o Tail(GivenTopics)])
                  IN  /\ other.status = result.status
                      /\ other.status = "raise" => other.exc = result.exc
                      /\ other.status = "return" => other.value = result.value

C15_Witness ==
    /\ IsTopics /\ ~call.event_abi.anonymous
    /\ Len(GivenTopics) = 2
    /\ GivenTopics[1].cls = "bytes"
    /\ \E str_topic \in TopicValues :
           /\ Writes(str_topic, GivenTopics[1])
           /\ Len(str_topic.data) = 1
           /\ lower(str_topic.data[1]) # str_topic.data[1]
    /\ result.status = "return"

(***************************************************************************)
(* Concurrent lookups.  Two threads call get_abi_element or                *)
(* get_abi_element_info on the same ABI; a step of a thread is one         *)
(* statement of get_abi_element.  The local variables of a call live in    *)
(* the frame of the call.                                                  *)
(***************************************************************************)
Threads == {1, 2}

ConcurrentElements ==
    {e \in Elements : /\ e.type \in {"function", "fallback"}
                      /\ e.name = "f"
                      /\ e.inputs \in {<<>>, <<P("a", "uint8")>>, <<P("a", "uint256")>>}
                      /\ e.type = "fallback" => e.inputs = <<>>}
ConcurrentABIs == SeqsUpTo(ConcurrentElements, MaxAbiLen)
ConcurrentCalls ==
    [op : {"get_abi_element", "get_abi_element_info"},
     identifier : {Text("f"), FallbackFn, NoneId},
     args : {<<>>, <<IntV(1)>>, <<IntV(300)>>},
     kwargs : {<<>>}]

NoCall == [op |-> "none", identifier |-> NoneId, args |-> <<>>, kwargs |-> <<>>]
NoOutcome == [status |-> "none"]
EmptyFrame ==
    [filtered_abis_by_name |-> <<>>,
     abi_element_matches |-> <<>>,
     elements_with_encodable_args |-> [value |-> <<>>, trace |-> NoTrace],
     fn_abi |-> NoOutcome]

\* A frame that all calls share, as the storage of a module-level variable.
frame_shared(thread) == 1

\* The frame of the call a thread is in: its own.
frame(thread) == thread

\* Lines 279-290 of get_abi_element_info, given the element found.
element_info(fn_abi, args, kwargs) ==
    LET fn_selector == encode_hex(function_abi_to_4byte_selector(fn_abi.value))
        fn_inputs == get_normalized_abi_inputs(fn_abi.value, args, kwargs)
        aligned_fn_inputs == get_aligned_abi_inputs(fn_abi.value, fn_inputs.value)
        t1 == AddTrace(fn_abi.trace, [NoTrace EXCEPT !.normalize = 1])
        t2 == AddTrace(t1, [NoTrace EXCEPT !.align = 1])
    IN  IF fn_abi.value.type = "fallback" \/ fn_abi.value.type = "receive"
        THEN Return([abi |-> fn_abi.value, selector |-> fn_selector,
                     arguments |-> <<>>], fn_abi.trace)
        ELSE IF ~fn_inputs.ok
        THEN Raise("TypeError", "normalization", t1)
        ELSE IF ~aligned_fn_inputs.ok
        THEN Raise("TypeError", "alignment", t2)
        ELSE Return([abi |-> fn_abi.value, selector |-> fn_selector,
                     arguments |-> aligned_fn_inputs.value], t2)

InitConcurrent ==
    /\ abi \in ConcurrentABIs
    /\ call = [op |-> "none"]
    /\ result = [status |-> "none"]
    /\ threads = [pc |-> [t \in Threads |-> "idle"],
                  input |-> [t \in Threads |-> NoCall],
                  frames |-> [t \in Threads |-> EmptyFrame],
                  out |-> [t \in Threads |-> NoOutcome]]
    /\ log_filter = [constructed |-> FALSE]

At(t, label) == threads.pc[t] = label
Local(t) == threads.frames[frame(t)]

\* A step of thread t: the next label, and the frame after the statement.
Step(t, label, new_frame) ==
    /\ threads' = [threads EXCEPT !.pc[t] = label, !.frames[frame(t)] = new_frame]
    /\ UNCHANGED <<abi, call, result, log_filter>>

Start(t) ==
    /\ At(t, "idle")
    /\ \E c \in ConcurrentCalls :
           /\ threads' = [threads EXCEPT !.pc[t] = "dispatch",
                                         !.input[t] = c,
                                         !.frames[frame(t)] = EmptyFrame]
           /\ UNCHANGED <<abi, call, result, log_filter>>

\* Lines 348-361.
Dispatch(t) ==
    /\ At(t, "dispatch")
    /\ LET identifier == threads.input[t].identifier
       IN  IF identifier = FallbackFn \/ identifier = Text("fallback")
           THEN Step(t, "found", [Local(t) EXCEPT !.fn_abi = get_fallback_function_abi(abi)])
           ELSE IF identifier = ReceiveFn \/ identifier = Text("receive")
           THEN Step(t, "found", [Local(t) EXCEPT !.fn_abi = get_receive_function_abi(abi)])
           ELSE IF identifier = NoneId \/ ~is_text(identifier)
           THEN Step(t, "found",
                     [Local(t) EXCEPT !.fn_abi = Raise("Web3TypeError",
                                                       "Unsupported function identifier",
                                                       NoTrace)])
           ELSE IF identifier = Text("constructor")
           THEN Step(t, "found", [Local(t) EXCEPT !.fn_abi = get_constructor_function_abi(abi)])
           ELSE Step(t, "filter_name", Local(t))

\* Line 363.
FilterName(t) ==
    /\ At(t, "filter_name")
    /\ Step(t, "filter_count",
            [Local(t) EXCEPT !.filtered_abis_by_name =
                filter_abi_by_name(threads.input[t].identifier.val, abi)])

\* Lines 364-365.
FilterCount(t) ==
    /\ At(t, "filter_count")
    /\ Step(t, "fast_path",
            [Local(t) EXCEPT !.abi_element_matches =
                _filter_by_argument_count(
                    Len(threads.input[t].args) + Cardinality(DOMAIN threads.input[t].kwargs),
                    Local(t).filtered_abis_by_name)])

\* Lines 367-368.
FastPath(t) ==
    /\ At(t, "fast_path")
    /\ IF /\ threads.input[t].args = <<>>
          /\ DOMAIN threads.input[t].kwargs = {}
          /\ Len(Local(t).abi_element_matches) = 1
       THEN Step(t, "found",
                 [Local(t) EXCEPT !.fn_abi =
                     _element_abi_to_type(Local(t).abi_element_matches[1], NoTrace)])
       ELSE Step(t, "encodability", Local(t))

\* Lines 370-372.
Encodability(t) ==
    /\ At(t, "encodability")
    /\ Step(t, "decide",
            [Local(t) EXCEPT !.elements_with_encodable_args =
                _filter_by_encodability(Local(t).abi_element_matches,
                                        threads.input[t].args, threads.input[t].kwargs)])

\* Lines 374-390.
Decide(t) ==
    /\ At(t, "decide")
    /\ LET encodable == Local(t).elements_with_encodable_args
           by_name == Local(t).filtered_abis_by_name
       IN  IF Len(encodable.value) # 1
           THEN Step(t, "found",
                     [Local(t) EXCEPT !.fn_abi =
                         Raise("MismatchedABI",
                               _mismatched_abi_error_diagnosis(
                                   threads.input[t].identifier,
                                   [i \in 1..Len(by_name) |-> abi_to_signature(by_name[i])],
                                   Len(Local(t).abi_element_matches),
                                   Len(encodable.value)),
                               encodable.trace)])
           ELSE Step(t, "found",
                     [Local(t) EXCEPT !.fn_abi =
                         _element_abi_to_type(encodable.value[1], encodable.trace)])

\* The call returns to its caller: the element, or for get_abi_element_info
\* the information built from it at lines 279-290.
Finish(t) ==
    /\ At(t, "found")
    /\ LET fn_abi == Local(t).fn_abi
           c == threads.input[t]
       IN  threads' = [threads EXCEPT
                          !.pc[t] = "done",
                          !.out[t] = IF c.op = "get_abi_element" \/ fn_abi.status = "raise"
                                     THEN fn_abi
                                     ELSE element_info(fn_abi, c.args, c.kwargs)]
    /\ UNCHANGED <<abi, call, result, log_filter>>

NextConcurrent ==
    \E t \in Threads :
        \/ Start(t)
        \/ Dispatch(t)
        \/ FilterName(t)
        \/ FilterCount(t)
        \/ FastPath(t)
        \/ Encodability(t)
        \/ Decide(t)
        \/ Finish(t)

SpecConcurrent == InitConcurrent /\ [][NextConcurrent]_vars

\* The outcome of a call that runs alone.
Alone(c) ==
    IF c.op = "get_abi_element_info"
    THEN get_abi_element_info(abi, c.identifier, c.args, c.kwargs)
    ELSE get_abi_element(abi, c.identifier, c.args, c.kwargs)

\* C13: however the steps of concurrent calls of get_abi_element and
\* get_abi_element_info interleave, every call ends with the outcome it has
\* when it runs alone, and no step changes the ABI or the arguments of a call
\* in progress.
C13_InterleavingsAgree ==
    /\ [](\A t \in Threads : At(t, "done") => threads.out[t] = Alone(threads.input[t]))
    /\ [][/\ abi' = abi
          /\ \A t \in Threads : ~At(t, "idle") => threads'.input[t] = threads.input[t]]_vars

C13_Witness ==
    /\ At(1, "done")
    /\ At(2, "decide")
    /\ threads.input[1].identifier = Text("f")
    /\ threads.input[1].args # threads.input[2].args
    /\ threads.out[1].status = "return"
    /\ Len(Local(2).elements_with_encodable_args.value) # 1

(***************************************************************************)
(* src/web3/_utils/filters.py: matching the data of a log entry against    *)
(* data filters (match_fn), and the filter object that keeps them          *)
(* (LogFilter, AsyncLogFilter).                                            *)
(*                                                                         *)
(* match_values_and_abi is a sequence of pairs (abi_type, match_values);   *)
(* match_values is None or a list of values.  The data of a log entry is   *)
(* kept as the sequence of its encoded arguments: an unsigned integer or   *)
(* the utf-8 bytes of a string.                                            *)
(***************************************************************************)
MaxFilters == 2
MaxMatchValues == 2

NoneValue == [cls |-> "NoneType"]
ListOf(items) == [cls |-> "list", items |-> items]
UintWord(n) == [uint |-> n]
Utf8Word(s) == [utf8 |-> s]

FilterTypes == {"uint8", "string"}
MatchValuePool(abi_type) ==
    IF abi_type = "string" THEN {Text("a"), Bytes("a")}
    ELSE {IntV(1), IntV(2), IntV(300)}
Words(abi_type) ==
    IF abi_type = "string" THEN {Utf8Word("a"), Utf8Word("b")}
    ELSE {UintWord(1), UintWord(2)}

DataFilter(abi_type, match_values) ==
    [abi_type |-> abi_type, match_values |-> match_values]
DataFilters ==
    {DataFilter(t, mv) :
        t \in FilterTypes,
        mv \in {NoneValue} \cup
               {ListOf(l) : l \in UNION {SeqsUpTo(MatchValuePool(u), MaxMatchValues) :
                                            u \in FilterTypes}}}
TypedDataFilters ==
    {f \in DataFilters :
        f.match_values # NoneValue =>
            \A j \in 1..Len(f.match_values.items) :
                f.match_values.items[j] \in MatchValuePool(f.abi_type)}
MatchValuesAndAbi == SeqsUpTo(TypedDataFilters, MaxFilters)

\* The log data an event with these argument types emits.
DataOf(match_values_and_abi) ==
    {d \in SeqsUpTo(UNION {Words(t) : t \in FilterTypes}, Len(match_values_and_abi)) :
        /\ Len(d) = Len(match_values_and_abi)
        /\ \A i \in 1..Len(d) : d[i] \in Words(match_values_and_abi[i].abi_type)}

\* eth-abi v1 decodes a string to utf-8 bytes, eth-abi v2 to text.
Codecs == {[strings_as_bytes |-> TRUE], [strings_as_bytes |-> FALSE]}

\* codec.decode(abi_types, HexBytes(data)), line 269.
codec_decode(codec, abi_types, data) ==
    [i \in 1..Len(abi_types) |->
        IF abi_types[i] = "string"
        THEN IF codec.strings_as_bytes THEN Bytes(data[i].utf8) ELSE Text(data[i].utf8)
        ELSE IntV(data[i].uint)]

\* codec.is_encodable(abi_type, value), line 277.
codec_is_encodable(codec, abi_type, value) ==
    IF abi_type = "string" THEN is_text(value) ELSE is_encodable(abi_type, value)

decode_utf8_bytes(value) == Text(value.val)

normalize_to_text(value) ==
    IF ~is_text(value) THEN decode_utf8_bytes(value) ELSE value

normalize_data_values(type_string, data_value) ==
    IF type_string = "string" THEN normalize_to_text(data_value) ELSE data_value

\* zip(*match_values_and_abi) unpacked into two names, line 267.
unzip(match_values_and_abi) ==
    IF Len(match_values_and_abi) = 0
    THEN [ok |-> FALSE]
    ELSE [ok |-> TRUE,
          abi_types |-> [i \in 1..Len(match_values_and_abi) |->
                            match_values_and_abi[i].abi_type],
          all_match_values |-> [i \in 1..Len(match_values_and_abi) |->
                                   match_values_and_abi[i].match_values]]

\* The inner loop, lines 276-285: "break" at an equal value, "raise" at a
\* value that is not encodable, "else" when the values run out.
RECURSIVE match_values_loop(_, _, _, _, _)
match_values_loop(codec, abi_type, match_values, normalized_data, j) ==
    IF j > Len(match_values) THEN "else"
    ELSE IF ~codec_is_encodable(codec, abi_type, match_values[j]) THEN "raise"
    ELSE IF match_values[j] = normalized_data THEN "break"
    ELSE match_values_loop(codec, abi_type, match_values, normalized_data, j + 1)

\* The outer loop, lines 270-287.
RECURSIVE match_positions_loop(_, _, _, _, _)
match_positions_loop(codec, decoded_values, all_match_values, abi_types, i) ==
    IF i > Len(decoded_values) THEN Return(TRUE, NoTrace)
    ELSE IF all_match_values[i] = NoneValue
    THEN match_positions_loop(codec, decoded_values, all_match_values, abi_types, i + 1)
    ELSE LET normalized_data == normalize_data_values(abi_types[i], decoded_values[i])
             ended == match_values_loop(codec, abi_types[i], all_match_values[i].items,
                                        normalized_data, 1)
         IN  IF ended = "raise"
             THEN Raise("ValueError", "wrong abi type", NoTrace)
             ELSE IF ended = "else"
             THEN Return(FALSE, NoTrace)
             ELSE match_positions_loop(codec, decoded_values, all_match_values,
                                       abi_types, i + 1)

match_fn(codec, match_values_and_abi, data) ==
    LET unzipped == unzip(match_values_and_abi)
    IN  IF ~unzipped.ok
        THEN Raise("ValueError", "not enough values to unpack", NoTrace)
        ELSE match_positions_loop(codec,
                                  codec_decode(codec, unzipped.abi_types, data),
                                  unzipped.all_match_values, unzipped.abi_types, 1)

InitMatch ==
    /\ abi = <<>>
    /\ call = [op |-> "none"]
    /\ result = [status |-> "none"]
    /\ threads = <<>>
    /\ log_filter = [constructed |-> FALSE]

MatchFn ==
    /\ call.op = "none"
    /\ \E codec \in Codecs, match_values_and_abi \in MatchValuesAndAbi :
         \E data \in DataOf(match_values_and_abi) :
           /\ call' = [op |-> "match_fn", codec |-> codec,
                       match_values_and_abi |-> match_values_and_abi, data |-> data]
           /\ result' = match_fn(codec, match_values_and_abi, data)
           /\ UNCHANGED <<abi, threads, log_filter>>

NextMatch == MatchFn

SpecMatch == InitMatch /\ [][NextMatch]_vars

(***************************************************************************)
(* match_fn: what the call in `call` is expected to give, said position    *)
(* by position.                                                            *)
(***************************************************************************)
IsMatch == call.op = "match_fn"
Filters == call.match_values_and_abi
Positions == 1..Len(Filters)

\* The value of the log data at position i, as text or as an integer.
DataValue(i) ==
    IF Filters[i].abi_type = "string" THEN Text(call.data[i].utf8)
    ELSE IntV(call.data[i].uint)

Ignored(i) == Filters[i].match_values = NoneValue
MatchValues(i) == Filters[i].match_values.items
EqualAt(i, j) == MatchValues(i)[j] = DataValue(i)
EncodableAt(i, j) ==
    IF Filters[i].abi_type = "string" THEN MatchValues(i)[j].cls = "str"
    ELSE /\ MatchValues(i)[j].cls = "int"
         /\ MatchValues(i)[j].v \in 0..255

\* Position i has a value equal to the data value.
MatchedAt(i) == \E j \in 1..Len(MatchValues(i)) : EqualAt(i, j)

\* Value j of position i is looked at: no earlier value of the position
\* ended the search, by being equal or by not being encodable.
ExaminedIn(i, j) ==
    \A k \in 1..(j - 1) : EncodableAt(i, k) /\ ~EqualAt(i, k)

\* Position i is left with a match.
PassedAt(i) ==
    \/ Ignored(i)
    \/ \E j \in 1..Len(MatchValues(i)) :
           ExaminedIn(i, j) /\ EncodableAt(i, j) /\ EqualAt(i, j)

\* A value that is not encodable is examined before the outcome is known.
BadValueExamined ==
    \E i \in Positions :
        /\ \A k \in 1..(i - 1) : PassedAt(k)
        /\ ~Ignored(i)
        /\ \E j \in 1..Len(MatchValues(i)) : ExaminedIn(i, j) /\ ~EncodableAt(i, j)

EveryPositionMatched == \A i \in Positions : Ignored(i) \/ MatchedAt(i)

MatchOutcomeAsClaimed ==
    IF BadValueExamined
    THEN result.status = "raise" /\ result.exc = "ValueError"
    ELSE result.status = "return" /\ result.value = EveryPositionMatched

MatchFnOnNonEmpty == (IsMatch /\ Filters # <<>>) => MatchOutcomeAsClaimed

\* Calls of match_fn where each part of the description is exercised.
MatchFnCasesReached ==
    /\ IsMatch
    /\ Len(Filters) = 2
    /\ Ignored(1)
    /\ ~Ignored(2)
    /\ Filters[2].abi_type = "string"
    /\ call.codec.strings_as_bytes
    /\ result.status = "return"
    /\ result.value = TRUE

(***************************************************************************)
(* LogFilter and AsyncLogFilter.  log_filter holds the one filter object   *)
(* of a behaviour: its attributes in `self`, and in `latest` the argument  *)
(* of the most recent set_data_filters call (None before the first).       *)
(***************************************************************************)
LogFilterClasses == {"LogFilter", "AsyncLogFilter"}

StoredFilters ==
    {DataFilter("uint8", NoneValue),
     DataFilter("uint8", ListOf(<<IntV(1)>>)),
     DataFilter("string", ListOf(<<Text("a")>>))}
DataFilterSets == SeqsUpTo(StoredFilters, MaxFilters)

NoKeyword == [given |-> FALSE]
Keyword(data_filter_set) == [given |-> TRUE, data_filter_set |-> data_filter_set]
Keywords == {NoKeyword} \cup {Keyword(s) : s \in DataFilterSets}

\* An attribute that neither the instance nor its classes define.
NoAttribute == [cls |-> "AttributeError"]

\* match_fn(codec, data_filter_set): curried, waiting for the data.
Partial(codec, match_values_and_abi) ==
    [cls |-> "partial", codec |-> codec, match_values_and_abi |-> match_values_and_abi]

\* The instance before __init__ has assigned anything: the class attributes
\* of lines 152-154 (194-196), and no eth_module.
NewObject(cls) ==
    [cls |-> cls,
     eth_module |-> NoAttribute,
     data_filter_set |-> NoneValue,
     data_filter_set_function |-> NoneValue]

\* any(data_filter_set): every element is a pair, and a pair is true.
any(data_filter_set) == Len(data_filter_set) > 0

\* Lines 173-185 (215-227).
set_data_filters(self, data_filter_set) ==
    LET stored == [self EXCEPT !.data_filter_set = ListOf(data_filter_set)]
    IN  IF any(data_filter_set)
        THEN IF stored.eth_module = NoAttribute
             THEN [raised |-> TRUE, exc |-> "AttributeError", self |-> stored]
             ELSE [raised |-> FALSE,
                   self |-> [stored EXCEPT !.data_filter_set_function =
                                Partial(stored.eth_module.codec, data_filter_set)]]
        ELSE [raised |-> FALSE, self |-> stored]

\* Filter.__init__, lines 101-104.
Filter__init__(self, eth_module) == [self EXCEPT !.eth_module = eth_module]

\* LogFilter.__init__, lines 159-166 (AsyncLogFilter.__init__, 201-208).
LogFilter__init__(self, eth_module, kwargs) ==
    LET set == IF kwargs.given
               THEN set_data_filters(self, kwargs.data_filter_set)
               ELSE [raised |-> FALSE, self |-> self]
    IN  IF set.raised THEN set
        ELSE [raised |-> FALSE, self |-> Filter__init__(set.self, eth_module)]

\* Lines 187-190 (229-232).
is_valid_entry(self, data) ==
    IF self.data_filter_set = NoneValue \/ self.data_filter_set.items = <<>>
    THEN Return(TRUE, NoTrace)
    ELSE IF self.data_filter_set_function = NoneValue
    THEN Raise("TypeError", "'NoneType' object is not callable", NoTrace)
    ELSE match_fn(self.data_filter_set_function.codec,
                  self.data_filter_set_function.match_values_and_abi, data)

\* The data of the log entries the node hands to the filter.
EntryData(self) ==
    IF self.data_filter_set = NoneValue \/ self.data_filter_set.items = <<>>
    THEN {<<>>, <<UintWord(1)>>}
    ELSE DataOf(self.data_filter_set.items)

InitLogFilter ==
    /\ abi = <<>>
    /\ call = [op |-> "none"]
    /\ result = [status |-> "none"]
    /\ threads = <<>>
    /\ log_filter = [constructed |-> FALSE]

NewLogFilter ==
    /\ ~log_filter.constructed
    /\ \E cls \in LogFilterClasses, codec \in Codecs, kwargs \in Keywords :
         LET made == LogFilter__init__(NewObject(cls), [codec |-> codec], kwargs)
         IN  /\ call' = [op |-> cls, codec |-> codec, kwargs |-> kwargs]
             /\ IF made.raised
                THEN /\ result' = Raise(made.exc, "no attribute eth_module", NoTrace)
                     /\ UNCHANGED log_filter
                ELSE /\ result' = Return(NoneValue, NoTrace)
                     /\ log_filter' = [constructed |-> TRUE,
                                       self |-> made.self,
                                       latest |-> IF kwargs.given
                                                  THEN ListOf(kwargs.data_filter_set)
                                                  ELSE NoneValue]
             /\ UNCHANGED <<abi, threads>>

SetDataFilters ==
    /\ log_filter.constructed
    /\ \E data_filter_set \in DataFilterSets :
         LET set == set_data_filters(log_filter.self, data_filter_set)
         IN  /\ call' = [op |-> "set_data_filters", data_filter_set |-> data_filter_set]
             /\ result' = IF set.raised
                          THEN Raise(set.exc, "no attribute eth_module", NoTrace)
                          ELSE Return(NoneValue, NoTrace)
             /\ log_filter' = [log_filter EXCEPT !.self = set.self,
                                                 !.latest = ListOf(data_filter_set)]
             /\ UNCHANGED <<abi, threads>>

IsValidEntry ==
    /\ log_filter.constructed
    /\ \E data \in EntryData(log_filter.self) :
         /\ call' = [op |-> "is_valid_entry", data |-> data]
         /\ result' = is_valid_entry(log_filter.self, data)
         /\ UNCHANGED <<abi, threads, log_filter>>

NextLogFilter ==
    \/ NewLogFilter
    \/ SetDataFilters
    \/ IsValidEntry

SpecLogFilter == InitLogFilter /\ [][NextLogFilter]_vars

IsConstruction == call.op \in LogFilterClasses
LatestIsEmpty == log_filter.latest = NoneValue \/ log_filter.latest.items = <<>>

\* is_valid_entry answers for the most recently set data_filter_set.
ValidEntryUsesLatest ==
    (log_filter.constructed /\ call.op = "is_valid_entry") =>
        result = IF LatestIsEmpty
                 THEN Return(TRUE, NoTrace)
                 ELSE match_fn(log_filter.self.eth_module.codec,
                               log_filter.latest.items, call.data)

\* The stored match function is defined and built from the current set.
StoredFunctionIsCurrent ==
    log_filter.constructed =>
        /\ log_filter.self.data_filter_set_function # NoneValue
        /\ log_filter.latest # NoneValue
        /\ log_filter.self.data_filter_set_function =
               Partial(log_filter.self.eth_module.codec, log_filter.latest.items)

\* C17: a LogFilter or AsyncLogFilter can be constructed with or without
\* the data_filter_set keyword; from then on is_valid_entry returns true when
\* the most recently set data_filter_set is empty or unset and the result of
\* matching the entry's data against it otherwise, and the stored match
\* function is always defined and built from the current data_filter_set
\* and the codec of the filter's eth_module.
C17_ValidEntryUsesCurrentFilters ==
    /\ IsConstruction => result.status = "return"
    /\ ValidEntryUsesLatest
    /\ StoredFunctionIsCurrent

\* The construction that fails: the keyword carries a non-empty set.
C17_Witness ==
    /\ IsConstruction
    /\ call.kwargs.given
    /\ call.kwargs.data_filter_set # <<>>
    /\ result.status = "raise"
    /\ result.exc = "AttributeError"
    /\ ~log_filter.constructed

\* Every construction with a non-empty data_filter_set keyword fails.
ConstructionWithFiltersFails ==
    (IsConstruction /\ call.kwargs.given /\ call.kwargs.data_filter_set # <<>>) =>
        (result.status = "raise" /\ result.exc = "AttributeError")

\* A filter whose set was emptied keeps the function of the earlier set.
StaleFunctionReached ==
    /\ log_filter.constructed
    /\ log_filter.latest = ListOf(<<>>)
    /\ log_filter.self.data_filter_set_function # NoneValue

====
